---- MODULE Spec2Model ----
(***************************************************************************)
(* Model of postal/_capi.c: the C extension function py_setup_datadir,     *)
(* which converts its argument to a C path and calls the libpostal setup   *)
(* routines in a fixed && chain.  One process; py_setup_datadir can be     *)
(* invoked several times in the process's lifetime.  The library is an     *)
(* external collaborator: every routine answers true or false freely.      *)
(***************************************************************************)
EXTENDS Integers, Sequences, FiniteSets, TLC

\* Longest str (in code points) / bytes (in bytes) argument drawn.
MaxLen == 1
\* Number of py_setup_datadir invocations in one process.
MaxCalls == 2

\* Code points of the str arguments: NUL, '/', U+00E9 (two UTF-8 bytes) and
\* the lone surrogate U+D800 (no UTF-8 encoding under "strict").
CodePoints == {0, 47, 233, 55296}
\* Bytes of the bytes arguments: NUL, '/', and 0xA9, 0xC3 (which are valid
\* UTF-8 only as the pair C3 A9).
ByteValues == {0, 47, 169, 195}

SeqsUpTo(S, n) == UNION {[1..m -> S] : m \in 0..n}

StrObjects == {[type |-> "str", val |-> v] : v \in SeqsUpTo(CodePoints, MaxLen)}
BytesObjects == {[type |-> "bytes", val |-> v] : v \in SeqsUpTo(ByteValues, MaxLen)}
OtherObjects == {[type |-> "NoneType", val |-> <<>>], [type |-> "bytearray", val |-> <<47>>]}
Objects == StrObjects \cup BytesObjects \cup OtherObjects

\* The argument tuples a caller can pass: none, one object, or two.
ArgTuples ==
    {<<>>} \cup {<<o>> : o \in Objects} \cup {<<o, o>> : o \in OtherObjects}

NoObject == [type |-> "NULL", val |-> <<>>]

-----------------------------------------------------------------------------
(* CPython helpers used by the function *)

PyUnicode_Check(o) == o.type = "str"

PyBytes_Check_anyobject(o) == o.type # "str" /\ o.type # "NULL"
PyBytes_Check(o) == o.type = "bytes"

IsSurrogate(c) == c >= 55296 /\ c <= 57343

\* UTF-8 bytes of one (non-surrogate) code point.
EncodeCodePoint(c) ==
    IF c < 128 THEN <<c>>
    ELSE IF c < 2048 THEN <<192 + (c \div 64), 128 + (c % 64)>>
    ELSE IF c < 65536
         THEN <<224 + (c \div 4096), 128 + ((c \div 64) % 64), 128 + (c % 64)>>
    ELSE <<240 + (c \div 262144), 128 + ((c \div 4096) % 64),
           128 + ((c \div 64) % 64), 128 + (c % 64)>>

RECURSIVE EncodeUTF8(_)
EncodeUTF8(s) ==
    IF s = <<>> THEN <<>> ELSE EncodeCodePoint(Head(s)) \o EncodeUTF8(Tail(s))

\* References to a bytes object just handed out: the empty and the one-byte
\* bytes objects are shared ones the interpreter also holds; any other is
\* new and held by the caller alone.
NewBytesRefcnt(buf) == IF Len(buf) <= 1 THEN 2 ELSE 1

\* The encoder of another codec: one byte per code point.
PyUnicode_AsEncodedString_latin1(o) ==
    IF \E i \in 1..Len(o.val) : o.val[i] > 255
    THEN [null |-> TRUE, buf |-> <<>>, refcnt |-> 0]
    ELSE [null |-> FALSE, buf |-> o.val, refcnt |-> NewBytesRefcnt(o.val)]
\* PyUnicode_AsEncodedString(o, "utf-8", "strict"): a reference to a bytes
\* object, or NULL when a code point has no encoding.
PyUnicode_AsEncodedString(o) ==
    IF \E i \in 1..Len(o.val) : IsSurrogate(o.val[i])
    THEN [null |-> TRUE, buf |-> <<>>, refcnt |-> 0]
    ELSE LET b == EncodeUTF8(o.val)
         IN [null |-> FALSE, buf |-> b, refcnt |-> NewBytesRefcnt(b)]

\* The C string at the start of a bytes buffer: the bytes before the first
\* NUL (PyBytes_AS_STRING returns the buffer, which ends in a NUL).
RECURSIVE CString(_)
CString(b) ==
    IF b = <<>> \/ Head(b) = 0 THEN <<>> ELSE <<Head(b)>> \o CString(Tail(b))

IsContinuation(b) == b >= 128 /\ b <= 191

\* Bytes a UTF-8 sequence starting with b1 has; 0 for an invalid start byte.
SequenceLength(b1) ==
    IF b1 < 128 THEN 1
    ELSE IF b1 >= 194 /\ b1 <= 223 THEN 2
    ELSE IF b1 >= 224 /\ b1 <= 239 THEN 3
    ELSE IF b1 >= 240 /\ b1 <= 244 THEN 4
    ELSE 0

\* The second byte's range depends on the first (no overlong forms, no
\* surrogates, nothing above U+10FFFF).
SecondByteOk(b1, b2) ==
    IF b1 = 224 THEN b2 >= 160 /\ b2 <= 191
    ELSE IF b1 = 237 THEN b2 >= 128 /\ b2 <= 159
    ELSE IF b1 = 240 THEN b2 >= 144 /\ b2 <= 191
    ELSE IF b1 = 244 THEN b2 >= 128 /\ b2 <= 143
    ELSE IsContinuation(b2)

\* How many bytes of the sequence starting b are a valid prefix of it.
ValidPrefix(b, n) ==
    IF Len(b) < 2 \/ ~SecondByteOk(b[1], b[2]) THEN 1
    ELSE IF n = 2 \/ Len(b) < 3 \/ ~IsContinuation(b[3]) THEN 2
    ELSE IF n = 3 \/ Len(b) < 4 \/ ~IsContinuation(b[4]) THEN 3
    ELSE 4

DecodedValue(b, n) ==
    IF n = 2 THEN (b[1] - 192) * 64 + (b[2] - 128)
    ELSE IF n = 3 THEN (b[1] - 224) * 4096 + (b[2] - 128) * 64 + (b[3] - 128)
    ELSE (b[1] - 240) * 262144 + (b[2] - 128) * 4096 + (b[3] - 128) * 64
         + (b[4] - 128)

ReplacementChar == 65533

RECURSIVE DecodeUTF8Replace(_)
\* The "%s" of PyErr_Format: the C string decoded as UTF-8, every maximal
\* invalid part replaced by U+FFFD.
DecodeUTF8Replace(b) ==
    IF b = <<>> THEN <<>>
    ELSE LET n == SequenceLength(b[1]) IN
         IF n = 1 THEN <<b[1]>> \o DecodeUTF8Replace(Tail(b))
         ELSE IF n = 0 THEN <<ReplacementChar>> \o DecodeUTF8Replace(Tail(b))
         ELSE LET good == ValidPrefix(b, n) IN
              IF good = n
              THEN <<DecodedValue(b, n)>>
                   \o DecodeUTF8Replace(SubSeq(b, n + 1, Len(b)))
              ELSE <<ReplacementChar>>
                   \o DecodeUTF8Replace(SubSeq(b, good + 1, Len(b)))

\* The literal text of the RuntimeError's format around its "%s".
FormatHead ==
    <<108, 105, 98, 112, 111, 115, 116, 97, 108, 32, 115, 101, 116, 117, 112,
      32, 115, 101, 113, 117, 101, 110, 99, 101, 32, 102, 97, 105, 108, 101,
      100, 32, 102, 111, 114, 32, 112, 97, 116, 104, 58, 32>>
FormatTail ==
    <<46, 32, 67, 104, 101, 99, 107, 32, 100, 97, 116, 97, 32, 102, 105, 108,
      101, 32, 105, 110, 116, 101, 103, 114, 105, 116, 121, 32, 97, 110, 100,
      32, 115, 101, 116, 117, 112, 32, 102, 117, 110, 99, 116, 105, 111, 110,
      32, 111, 114, 100, 101, 114, 46>>

PyErr_Format(cstr) == FormatHead \o DecodeUTF8Replace(cstr) \o FormatTail

-----------------------------------------------------------------------------
(* The libpostal routines *)

\* The routines of the commented-out second load (lines 47-56) run as well.
SetupSequence_reload ==
    << [fn |-> "libpostal_setup_datadir", path |-> TRUE],
       [fn |-> "libpostal_setup", path |-> FALSE],
       [fn |-> "libpostal_setup_parser_datadir", path |-> TRUE],
       [fn |-> "libpostal_setup_parser", path |-> FALSE],
       [fn |-> "libpostal_setup_language_classifier_datadir", path |-> TRUE],
       [fn |-> "libpostal_setup", path |-> FALSE],
       [fn |-> "libpostal_setup_parser", path |-> FALSE] >>
\* The order of an earlier revision: the three data directories only.
SetupSequence_datadirs ==
    << [fn |-> "libpostal_setup_datadir", path |-> TRUE],
       [fn |-> "libpostal_setup_language_classifier_datadir", path |-> TRUE],
       [fn |-> "libpostal_setup_parser_datadir", path |-> TRUE] >>
\* The operands of the && chain, in order; path: the call takes datadir.
SetupSequence ==
    << [fn |-> "libpostal_setup_datadir", path |-> TRUE],
       [fn |-> "libpostal_setup", path |-> FALSE],
       [fn |-> "libpostal_setup_parser_datadir", path |-> TRUE],
       [fn |-> "libpostal_setup_parser", path |-> FALSE],
       [fn |-> "libpostal_setup_language_classifier_datadir", path |-> TRUE] >>

ChainContinues_eager(ret, k) == k < Len(SetupSequence)
\* && evaluates its right operand only when the left one is true.
ChainContinues(ret, k) == ret /\ k < Len(SetupSequence)

Unset == [set |-> FALSE, path |-> <<>>]
DirSet(p) == [set |-> TRUE, path |-> p]

\* What a routine that answers true has done, as the comments on the calls
\* say: "Set base path", "Load base/language models", "Set parser path",
\* "Load parser models", "Set LC path".  A routine that answers false
\* leaves the recorded state alone.
LibEffect(l, fn, path, ret) ==
    IF ~ret THEN l
    ELSE IF fn = "libpostal_setup_datadir"
         THEN [l EXCEPT !.base_dir = DirSet(path)]
    ELSE IF fn = "libpostal_setup"
         THEN [l EXCEPT !.base_loaded = TRUE]
    ELSE IF fn = "libpostal_setup_parser_datadir"
         THEN [l EXCEPT !.parser_dir = DirSet(path)]
    ELSE IF fn = "libpostal_setup_parser"
         THEN [l EXCEPT !.parser_loaded = TRUE]
    ELSE [l EXCEPT !.lc_dir = DirSet(path)]

\* Executions of the two model-load routines so far in the process.
CountLoad(n, fn) ==
    IF fn = "libpostal_setup" THEN [n EXCEPT !.setup = @ + 1]
    ELSE IF fn = "libpostal_setup_parser" THEN [n EXCEPT !.parser = @ + 1]
    ELSE n

-----------------------------------------------------------------------------
VARIABLES
    pc,          \* where py_setup_datadir is; "idle": not running
    args,        \* the argument tuple of the current (or last) invocation
    arg_path,    \* PyObject *arg_path
    datadir,     \* char *datadir: "NULL", or the object whose buffer it is
    py_bytes,    \* PyObject *py_bytes, with the object's reference count
    setup_ok,    \* bool setup_ok
    calls,       \* library calls of the current (or last) invocation
    result,      \* what the last invocation returned or raised
    msg,         \* the text of the RuntimeError raised, if any
    released,    \* times the invocation dropped its reference to py_bytes
    stale_read,  \* the invocation read datadir after its buffer was freed
    invocations, \* invocations started in this process
    lib,         \* what the library has been told and has loaded
    loads,       \* executions of the model-load routines in this process
    first_ok,    \* the path of the first invocation that returned True
    prev         \* the invocation before the current one (SpecEquiv only)

vars == <<pc, args, arg_path, datadir, py_bytes, setup_ok, calls, result, msg,
          released, stale_read, invocations, lib, loads, first_ok, prev>>

locals == <<args, arg_path, datadir, py_bytes, setup_ok, calls, result, msg,
            released, stale_read>>
process == <<invocations, lib, loads, first_ok>>

NullBytes == [null |-> TRUE, buf |-> <<>>, refcnt |-> 0]
NoPrev == [set |-> FALSE, args |-> <<>>, calls |-> <<>>, result |-> "none"]

Init ==
    /\ pc = "idle"
    /\ args = <<>>
    /\ arg_path = NoObject
    /\ datadir = "NULL"
    /\ py_bytes = NullBytes
    /\ setup_ok = FALSE
    /\ calls = <<>>
    /\ result = "none"
    /\ msg = <<>>
    /\ released = 0
    /\ stale_read = FALSE
    /\ invocations = 0
    /\ lib = [base_dir |-> Unset, parser_dir |-> Unset, lc_dir |-> Unset,
              base_loaded |-> FALSE, parser_loaded |-> FALSE]
    /\ loads = [setup |-> 0, parser |-> 0]
    /\ first_ok = Unset
    /\ prev = NoPrev

\* Lines 6-14: entry, PyArg_ParseTuple(args, "O:setup_datadir", &arg_path),
\* and the two locals set to NULL.
Call(a) ==
    /\ pc = "idle"
    /\ invocations < MaxCalls
    /\ invocations' = invocations + 1
    /\ args' = a
    /\ datadir' = "NULL"
    /\ py_bytes' = NullBytes
    /\ setup_ok' = FALSE
    /\ calls' = <<>>
    /\ msg' = <<>>
    /\ released' = 0
    /\ stale_read' = FALSE
    /\ IF Len(a) = 1
       THEN /\ arg_path' = a[1]
            /\ result' = "none"
            /\ pc' = "convert"
       ELSE /\ arg_path' = NoObject
            /\ result' = "TypeError"
            /\ pc' = "idle"
    /\ UNCHANGED <<lib, loads, first_ok>>

Enter ==
    /\ \E a \in ArgTuples : Call(a)
    /\ UNCHANGED prev

\* Lines 15-22: the path object to a C string.
Convert ==
    /\ pc = "convert"
    /\ IF PyUnicode_Check(arg_path)
       THEN /\ py_bytes' = PyUnicode_AsEncodedString(arg_path)
            /\ datadir' = IF py_bytes'.null THEN "NULL" ELSE "py_bytes"
       ELSE /\ py_bytes' = py_bytes
            /\ datadir' = IF PyBytes_Check(arg_path) THEN "arg_path" ELSE "NULL"
    /\ pc' = "check"
    /\ UNCHANGED <<args, arg_path, setup_ok, calls, result, msg, released,
                   stale_read, process, prev>>

\* Py_XDECREF(py_bytes): nothing for NULL; the object is freed at count 0.
Py_XDECREF(b) == IF b.null THEN b ELSE [b EXCEPT !.refcnt = @ - 1]

\* Lines 24-28.
CheckNull ==
    /\ pc = "check"
    /\ IF datadir = "NULL"
       THEN /\ py_bytes' = Py_XDECREF(py_bytes)
            /\ released' = released + (IF py_bytes.null THEN 0 ELSE 1)
            /\ result' = "TypeError"
            /\ pc' = "idle"
       ELSE /\ pc' = "setup"
            /\ UNCHANGED <<py_bytes, released, result>>
    /\ UNCHANGED <<args, arg_path, datadir, setup_ok, calls, msg, stale_read,
                   process, prev>>

\* What memory freed by the last Py_XDECREF can hold when it is read as a C
\* string: the old bytes, nothing, or the allocator's dead-byte fill.
FreedReads(buf) == {CString(buf), <<>>, <<221, 221>>}

\* The C strings a read of datadir can see.
ReadDatadir ==
    IF datadir = "py_bytes"
    THEN IF py_bytes.refcnt > 0 THEN {CString(py_bytes.buf)}
         ELSE FreedReads(py_bytes.buf)
    ELSE {CString(arg_path.val)}

DatadirIsStale == datadir = "py_bytes" /\ py_bytes.refcnt = 0

\* Lines 31-35: the next operand of the && chain is called and answers.
LibCall ==
    /\ pc = "setup"
    /\ LET k == Len(calls) + 1
           f == SetupSequence[k]
       IN \E ret \in BOOLEAN :
          \E p \in (IF f.path THEN ReadDatadir ELSE {<<>>}) :
            /\ calls' = Append(calls, [fn |-> f.fn, path |-> f.path, arg |-> p,
                                       ret |-> ret])
            /\ stale_read' = (stale_read \/ (f.path /\ DatadirIsStale))
            /\ lib' = LibEffect(lib, f.fn, p, ret)
            /\ loads' = CountLoad(loads, f.fn)
            /\ IF ChainContinues(ret, k)
               THEN /\ pc' = "setup"
                    /\ UNCHANGED setup_ok
               ELSE /\ pc' = "release"
                    /\ setup_ok' = \A i \in 1..Len(calls') : calls'[i].ret
    /\ UNCHANGED <<args, arg_path, datadir, py_bytes, result, msg, released,
                   invocations, first_ok, prev>>

\* Line 38.
Release ==
    /\ pc = "release"
    /\ py_bytes' = Py_XDECREF(py_bytes)
    /\ released' = released + (IF py_bytes.null THEN 0 ELSE 1)
    /\ pc' = "report"
    /\ UNCHANGED <<args, arg_path, datadir, setup_ok, calls, result, msg,
                   stale_read, process, prev>>

\* Lines 40-58: the RuntimeError with the path, or True.
Report ==
    /\ pc = "report"
    /\ IF ~setup_ok
       THEN /\ \E p \in ReadDatadir : msg' = PyErr_Format(p)
            /\ stale_read' = (stale_read \/ DatadirIsStale)
            /\ result' = "RuntimeError"
            /\ UNCHANGED first_ok
       ELSE /\ result' = "True"
            /\ first_ok' = IF first_ok.set THEN first_ok
                           ELSE DirSet(CString(IF datadir = "py_bytes"
                                               THEN py_bytes.buf
                                               ELSE arg_path.val))
            /\ UNCHANGED <<msg, stale_read>>
    /\ pc' = "idle"
    /\ UNCHANGED <<args, arg_path, datadir, py_bytes, setup_ok, calls,
                   released, invocations, lib, loads, prev>>

Next == Enter \/ Convert \/ CheckNull \/ LibCall \/ Release \/ Report

Spec == Init /\ [][Next]_vars

-----------------------------------------------------------------------------
(* Two invocations in a row, the second with the bytes that are the UTF-8  *)
(* encoding of the first one's str.                                        *)

\* UTF-8 by table, for the code points drawn (the surrogate has none).
Utf8Table(c) ==
    CASE c = 0 -> <<0>>
      [] c = 47 -> <<47>>
      [] c = 233 -> <<195, 169>>
      [] OTHER -> <<>>
HasUtf8(s) == \A i \in 1..Len(s) : s[i] \in {0, 47, 233}
RECURSIVE Utf8Ref(_)
Utf8Ref(s) == IF s = <<>> THEN <<>> ELSE Utf8Table(Head(s)) \o Utf8Ref(Tail(s))

EnterStr ==
    /\ invocations = 0
    /\ \E o \in StrObjects : Call(<<o>>)
    /\ UNCHANGED prev

EnterEncoded ==
    /\ pc = "idle"
    /\ invocations = 1
    /\ ~prev.set
    /\ HasUtf8(args[1].val)
    /\ prev' = [set |-> TRUE, args |-> args, calls |-> calls, result |-> result]
    /\ Call(<<[type |-> "bytes", val |-> Utf8Ref(args[1].val)]>>)

NextEquiv ==
    EnterStr \/ EnterEncoded \/ Convert \/ CheckNull \/ LibCall \/ Release \/ Report

SpecEquiv == Init /\ [][NextEquiv]_vars

-----------------------------------------------------------------------------
(* Properties *)

Done == pc = "idle" /\ invocations > 0
OnePathArgument ==
    Len(args) = 1 /\ (args[1].type = "str" \/ args[1].type = "bytes")
FixedOrder ==
    << "libpostal_setup_datadir", "libpostal_setup",
       "libpostal_setup_parser_datadir", "libpostal_setup_parser",
       "libpostal_setup_language_classifier_datadir" >>
Routines(c) == [i \in 1..Len(c) |-> c[i].fn]
AllAnsweredTrue(c) == \A i \in 1..Len(c) : c[i].ret
IsSubSeq(p, m) ==
    \E i \in 0..(Len(m) - Len(p)) : SubSeq(m, i + 1, i + Len(p)) = p
Min(a, b) == IF a < b THEN a ELSE b

\* C1: an invocation whose argument is not one str or bytes object makes no
\* library call, and ends in the TypeError.
InvalidArgumentMakesNoCall ==
    (invocations > 0 /\ ~OnePathArgument) =>
        /\ calls = <<>>
        /\ pc = "idle" => result = "TypeError"
InvalidArgumentRejected ==
    /\ Done /\ Len(args) = 1 /\ args[1].type = "bytearray"
    /\ result = "TypeError" /\ calls = <<>>

\* C2: an invocation with a path (str with a UTF-8 encoding, or bytes) in
\* which every library call made answered true returns True, and its calls
\* are the five routines of the fixed order, once each.
AllSucceedCallsEachOnceInOrder ==
    (Done /\ OnePathArgument
          /\ ~(\E i \in 1..Len(args[1].val) :
                  args[1].type = "str" /\ IsSurrogate(args[1].val[i]))
          /\ AllAnsweredTrue(calls)) =>
        /\ result = "True"
        /\ Routines(calls) = FixedOrder
SucceededAfterFiveCalls ==
    Done /\ result = "True" /\ Len(calls) = 5 /\ args[1].type = "str"

\* C3: the calls made are always a prefix of the fixed order in which only
\* the last one can have answered false; an invocation whose last call
\* answered false ends in the RuntimeError.
FailureShortCircuits ==
    /\ Len(calls) <= Len(FixedOrder)
    /\ \A i \in 1..Min(Len(calls), Len(FixedOrder)) :
          /\ calls[i].fn = FixedOrder[i]
          /\ i < Len(calls) => calls[i].ret
    /\ (Done /\ calls # <<>> /\ ~calls[Len(calls)].ret) => result = "RuntimeError"
    /\ (Done /\ result = "RuntimeError") => ~calls[Len(calls)].ret
FailedAtThirdCall ==
    Done /\ result = "RuntimeError" /\ Len(calls) = 3 /\ ~calls[3].ret

\* C4: the text of the RuntimeError contains the path that was passed in:
\* the code points of a str, the bytes of a bytes object.
MessageContainsExactPath ==
    (Done /\ result = "RuntimeError") =>
        IF args[1].type = "str" THEN IsSubSeq(args[1].val, msg)
        ELSE IsSubSeq(args[1].val, EncodeUTF8(msg))

\* The routine that sets a subsystem's data directory and the one that
\* loads its model ("Assuming language classifier is loaded by
\* libpostal_setup()").
Subsystems == {"base", "parser", "language_classifier"}
ConfigRoutine(s) ==
    IF s = "base" THEN "libpostal_setup_datadir"
    ELSE IF s = "parser" THEN "libpostal_setup_parser_datadir"
    ELSE "libpostal_setup_language_classifier_datadir"
LoadRoutine(s) ==
    IF s = "parser" THEN "libpostal_setup_parser" ELSE "libpostal_setup"
Calls(fn) == {i \in 1..Len(calls) : calls[i].fn = fn}

\* C5: when an invocation returns True, each subsystem's data-directory
\* call was made before the call that loads its model.
ConfigurationPrecedesLoad ==
    (Done /\ result = "True") =>
        \A s \in Subsystems :
            /\ Calls(ConfigRoutine(s)) # {}
            /\ Calls(LoadRoutine(s)) # {}
            /\ \A i \in Calls(ConfigRoutine(s)), j \in Calls(LoadRoutine(s)) : i < j

\* C6 (as claimed): each model-load routine runs at most once in the
\* process's lifetime.
LoadedOncePerProcess == loads.setup <= 1 /\ loads.parser <= 1
\* C6 (amended): each model-load routine runs at most once in an
\* invocation, so at most as often as the function has been invoked.
LoadedOncePerInvocation ==
    /\ Cardinality(Calls("libpostal_setup")) <= 1
    /\ Cardinality(Calls("libpostal_setup_parser")) <= 1
    /\ loads.setup <= invocations
    /\ loads.parser <= invocations
LoadedAgainBySecondInvocation ==
    invocations = 2 /\ loads.setup = 2 /\ loads.parser = 2

\* C7: the invocation with the bytes makes the calls the invocation with the
\* str made (same routines, same path arguments) and ends the same way,
\* when the library's answers are the same as far as both went.
EncodingEquivalence ==
    (prev.set /\ pc = "idle"
       /\ \A i \in 1..Min(Len(calls), Len(prev.calls)) :
             calls[i].ret = prev.calls[i].ret) =>
        /\ calls = prev.calls
        /\ result = prev.result
EncodedPathFailedTheSameWay ==
    /\ prev.set /\ pc = "idle"
    /\ prev.args[1].val = <<233>> /\ args[1].val = <<195, 169>>
    /\ calls = prev.calls /\ Len(calls) = 3
    /\ calls[3].arg = <<195, 169>>
    /\ result = "RuntimeError" /\ prev.result = "RuntimeError"

\* Every data directory has been set and both models loaded.
Configured ==
    /\ lib.base_dir.set /\ lib.parser_dir.set /\ lib.lc_dir.set
    /\ lib.base_loaded /\ lib.parser_loaded

\* C8 (as claimed): once an invocation has returned True the library stays
\* configured with the path of that invocation.
ConfiguredKeepsFirstPath ==
    first_ok.set =>
        /\ Configured
        /\ lib.base_dir.path = first_ok.path
        /\ lib.parser_dir.path = first_ok.path
        /\ lib.lc_dir.path = first_ok.path
\* C8 (amended): between invocations the library is configured exactly when
\* some invocation has returned True, and once one has, it stays
\* configured.
ConfiguredBySuccessAndTerminal ==
    /\ pc = "idle" => (Configured <=> first_ok.set)
    /\ first_ok.set => Configured
LaterFailureLeavesConfigured ==
    /\ Done /\ invocations = 2 /\ result = "RuntimeError"
    /\ first_ok.set /\ Configured
    /\ lib.base_dir.path # first_ok.path

\* C9: an invocation whose argument is a str or a bytes object makes a
\* library call and does not end in the TypeError.
PathArgumentNeverTypeError ==
    (Done /\ OnePathArgument) => (result # "TypeError" /\ calls # <<>>)

\* C10: datadir is never read after its buffer was freed; the reference to
\* py_bytes is dropped exactly once; nothing is dropped for a bytes
\* argument.
DatadirReadOnlyWhileOwned ==
    /\ ~stale_read
    /\ (Done /\ datadir = "py_bytes") => released = 1
    /\ datadir = "arg_path" => released = 0

====
